---------------------------- MODULE Spec2Model ----------------------------
(***************************************************************************)
(* Model of src/index.js: the Express handlers POST /generate-post and     *)
(* DELETE /delete-image, together with the collaborators they drive: the   *)
(* headless browser (puppeteer), the scratch directory /tmp, the wall      *)
(* clock (Date.now) and the remote object storage (cloudinary).            *)
(*                                                                         *)
(* JavaScript runs a handler to completion between two awaits, so every    *)
(* action below is one such segment: the settlement of the awaited call    *)
(* followed by all the code up to the next await (or to the end of the     *)
(* handler).  Strings are sequences of one-character strings, so that the  *)
(* regular expressions, the template literals and String.replace are       *)
(* computed character by character.                                        *)
(***************************************************************************)
EXTENDS Integers, Sequences, FiniteSets, TLC

(***************************************************************************)
(* Bounds of the model.                                                    *)
(***************************************************************************)
\* Date.now() of the first state, in milliseconds.
StartTime == 9
\* The number of milliseconds the clock may advance.
MaxTicks == 1

\* The concurrent POST /generate-post requests and DELETE /delete-image requests.
GenIds == {"g1", "g2"}
DelIds == {"d1"}

(***************************************************************************)
(* Characters and strings.                                                 *)
(***************************************************************************)
DigitChars == <<"0", "1", "2", "3", "4", "5", "6", "7", "8", "9">>

Digits == {DigitChars[i] : i \in 1..10}

LowerAF == {"a", "b", "c", "d", "e", "f"}

UpperAF == {"A", "B", "C", "D", "E", "F"}

HexChars == Digits \cup LowerAF \cup UpperAF

Alpha == LowerAF \cup UpperAF \cup
         {"g", "h", "i", "j", "l", "m", "n", "o", "p", "r", "s", "t", "u", "x"}

SchemeChars == Alpha \cup Digits \cup {"+", "-", "."}

\* `${n}` for a non-negative integer n: its decimal digits.
RECURSIVE NumberToString(_)
NumberToString(n) ==
    IF n < 10 THEN <<DigitChars[n + 1]>>
    ELSE NumberToString(n \div 10) \o <<DigitChars[(n % 10) + 1]>>

\* The positions at which pat occurs in s.
Occurrences(s, pat) ==
    {i \in 1..(Len(s) - Len(pat) + 1) : SubSeq(s, i, i + Len(pat) - 1) = pat}

Min(S) == CHOOSE x \in S : \A y \in S : x <= y

\* String.prototype.replace with a string pattern: the first occurrence only.
Replace(s, pat, rep) ==
    IF Occurrences(s, pat) = {} THEN s
    ELSE LET i == Min(Occurrences(s, pat))
         IN  SubSeq(s, 1, i - 1) \o rep \o SubSeq(s, i + Len(pat), Len(s))

DotJpg == <<".", "j", "p", "g">>

ProcessedImagePrefix ==
    <<"p", "r", "o", "c", "e", "s", "s", "e", "d", "_", "i", "m", "a", "g", "e", "_">>

FolderPrefix ==
    <<"p", "r", "o", "c", "e", "s", "s", "e", "d", "_", "i", "m", "a", "g", "e", "s", "/">>

TmpDir == <<"/", "t", "m", "p">>

(***************************************************************************)
(* JavaScript values that arrive in a request body.                        *)
(***************************************************************************)
Str(s) == [t |-> "string", s |-> s]

Num(s) == [t |-> "number", s |-> s]

Arr(s) == [t |-> "array", s |-> s]

Undefined == [t |-> "undefined", s |-> <<>>]

\* String(v), as RegExp.prototype.test coerces its argument: a one-element
\* array prints as its element, undefined as "undefined".
ToStr(v) ==
    IF v.t = "undefined" THEN <<"u", "n", "d", "e", "f", "i", "n", "e", "d">>
    ELSE v.s

\* !v for the values above: undefined and the empty string are falsy (an
\* array is always truthy, and the numbers used here are non-zero).
Falsy(v) == v.t = "undefined" \/ (v.t = "string" /\ v.s = <<>>)

(***************************************************************************)
(* isValidFilename: /^processed_image_\d+\.jpg$/.test(filename).           *)
(***************************************************************************)
\* A plausible slip: the pattern without its anchors ^ and $, which any
\* string holding a matching part satisfies.
UnanchoredFilenamePattern(s) ==
    \E i \in 1..Len(s) : \E j \in i..Len(s) :
        LET u == SubSeq(s, i, j)
            p == Len(ProcessedImagePrefix)
            e == Len(DotJpg)
        IN  /\ Len(u) >= p + 1 + e
            /\ SubSeq(u, 1, p) = ProcessedImagePrefix
            /\ SubSeq(u, Len(u) - e + 1, Len(u)) = DotJpg
            /\ \A k \in (p + 1)..(Len(u) - e) : u[k] \in Digits

MatchesFilenamePattern(s) ==
    LET p == Len(ProcessedImagePrefix)
        e == Len(DotJpg)
    IN  /\ Len(s) >= p + 1 + e
        /\ SubSeq(s, 1, p) = ProcessedImagePrefix
        /\ SubSeq(s, Len(s) - e + 1, Len(s)) = DotJpg
        /\ \A i \in (p + 1)..(Len(s) - e) : s[i] \in Digits

isValidFilename(filename) == MatchesFilenamePattern(ToStr(filename))

(***************************************************************************)
(* postSchema: the Joi schema of the body of POST /generate-post.          *)
(***************************************************************************)
\* Joi.string().uri(): an absolute URI, a scheme followed by ":" and a
\* hierarchical part without blanks.
IsUri(s) ==
    \E i \in 2..Len(s) :
        /\ s[i] = ":"
        /\ s[1] \in Alpha
        /\ \A j \in 1..(i - 1) : s[j] \in SchemeChars
        /\ i < Len(s)
        /\ \A j \in 1..Len(s) : s[j] # " "

\* /^#([0-9a-fA-F]{3}){1,2}$/
MatchesHexColor(s) ==
    /\ Len(s) \in {4, 7}
    /\ s[1] = "#"
    /\ \A i \in 2..Len(s) : s[i] \in HexChars

Ltr == <<"l", "t", "r">>

Rtl == <<"r", "t", "l">>

SchemaKeys ==
    <<"imageUrl", "logoUrl", "text01", "focusText", "text02",
      "direction", "language", "focusTextColor">>

RequiredKeys == {"imageUrl", "logoUrl", "text01", "focusText", "text02"}

NoError == <<>>

\* A plausible slip: the pattern of focusTextColor left out of the schema.
KeyErrorNoPattern(b, k) ==
    IF k \notin DOMAIN b
    THEN IF k \in RequiredKeys THEN <<k, "any.required">> ELSE NoError
    ELSE LET v == b[k] IN
         IF v.t # "string" THEN <<k, "string.base">>
         ELSE IF k = "direction"
              THEN IF v.s \in {Ltr, Rtl} THEN NoError ELSE <<k, "any.only">>
         ELSE IF v.s = <<>> THEN <<k, "string.empty">>
         ELSE IF k \in {"imageUrl", "logoUrl"} /\ ~IsUri(v.s) THEN <<k, "string.uri">>
         ELSE NoError

\* The error, if any, Joi reports for key k of body b: <<key, error type>>.
KeyError(b, k) ==
    IF k \notin DOMAIN b
    THEN IF k \in RequiredKeys THEN <<k, "any.required">> ELSE NoError
    ELSE LET v == b[k] IN
         IF v.t # "string" THEN <<k, "string.base">>
         ELSE IF k = "direction"
              THEN IF v.s \in {Ltr, Rtl} THEN NoError ELSE <<k, "any.only">>
         ELSE IF v.s = <<>> THEN <<k, "string.empty">>
         ELSE IF k \in {"imageUrl", "logoUrl"} /\ ~IsUri(v.s) THEN <<k, "string.uri">>
         ELSE IF k = "focusTextColor" /\ ~MatchesHexColor(v.s)
              THEN <<k, "string.pattern.base">>
         ELSE NoError

\* postSchema.validate(req.body).error: the first failing key in schema
\* order, then any key the schema does not know.
validate(b) ==
    LET failing == {i \in 1..Len(SchemaKeys) : KeyError(b, SchemaKeys[i]) # NoError}
        known   == {SchemaKeys[i] : i \in 1..Len(SchemaKeys)}
        unknown == DOMAIN b \ known
    IN  IF failing # {} THEN KeyError(b, SchemaKeys[Min(failing)])
        ELSE IF unknown # {} THEN <<CHOOSE k \in unknown : TRUE, "object.unknown">>
        ELSE NoError

(***************************************************************************)
(* Request bodies the model sends to POST /generate-post.                  *)
(***************************************************************************)
UrlA == <<"h", "t", "t", "p", "s", ":", "/", "/", "x", "/", "a">>

UrlB == <<"h", "t", "t", "p", "s", ":", "/", "/", "x", "/", "b">>

NotAUri == <<"n", "o", " ", "u", "r", "i">>

\* The required fields only: {imageUrl, logoUrl, text01:"A", focusText:"B", text02:"C"}.
MinimalBody ==
    [imageUrl |-> Str(UrlA), logoUrl |-> Str(UrlB),
     text01 |-> Str(<<"A">>), focusText |-> Str(<<"B">>), text02 |-> Str(<<"C">>)]

With(b, k, v) == [x \in DOMAIN b \cup {k} |-> IF x = k THEN v ELSE b[x]]

Without(b, k) == [x \in DOMAIN b \ {k} |-> b[x]]

RtlBody ==
    With(With(With(MinimalBody, "direction", Str(Rtl)),
              "language", Str(<<"a", "r">>)),
         "focusTextColor", Str(<<"#", "0", "a", "F">>))

ValidBodies == {MinimalBody, RtlBody}

InvalidBodies ==
    {Without(MinimalBody, "imageUrl"),
     With(MinimalBody, "imageUrl", Str(NotAUri)),
     Without(MinimalBody, "logoUrl"),
     With(MinimalBody, "logoUrl", Str(NotAUri)),
     Without(MinimalBody, "text01"),
     With(MinimalBody, "text01", Str(<<>>)),
     Without(MinimalBody, "focusText"),
     With(MinimalBody, "focusText", Str(<<>>)),
     Without(MinimalBody, "text02"),
     With(MinimalBody, "text02", Str(<<>>)),
     With(MinimalBody, "text02", Num(<<"7">>)),
     With(MinimalBody, "direction", Str(<<"u", "p">>)),
     With(MinimalBody, "focusTextColor", Str(<<"r", "e", "d">>)),
     With(MinimalBody, "focusTextColor", Str(<<"#", "1", "2">>)),
     With(MinimalBody, "focusTextColor", Str(<<"#", "1", "2", "3", "4", "5">>)),
     With(RtlBody, "focusTextColor", Str(<<"#", "g", "g", "g">>)),
     With(RtlBody, "extra", Str(<<"x">>))}

Bodies == ValidBodies \cup InvalidBodies

(***************************************************************************)
(* The state.                                                              *)
(***************************************************************************)
VARIABLES
    now,        \* Date.now(), in milliseconds
    gen,        \* gen[r]: the run of POST /generate-post for request r
    del,        \* del[d]: the run of DELETE /delete-image for request d
    fs,         \* the scratch directory: path -> the request whose render the file holds
    remote,     \* the remote storage: public id -> the content stored under it
    uploads     \* the number of uploads the remote storage has accepted

vars == <<now, gen, del, fs, remote, uploads>>

NoBody == [k \in {} |-> Undefined]

NoResult == [t |-> "unset", secure_url |-> <<>>, public_id |-> <<>>]

\* What .catch((error) => { ...; return null; }) yields.
Null == [t |-> "null", secure_url |-> <<>>, public_id |-> <<>>]

NoResponse == [status |-> 0, body |-> NoBody]

NoCalls == [launch |-> 0, screenshot |-> 0, close |-> 0, upload |-> 0, unlink |-> 0]

\* pc: the awaited call the handler is suspended on ("idle": the request
\*     has not arrived, "done": the handler has returned).
\* browser: "none", "open" (launched and not closed) or "closed".
\* fileName, filePath: lines 233-234, <<>> before they are computed.
\* read: what the upload found at filePath ("none": it has not read yet,
\*     "absent": no such file, otherwise the request whose render it read).
\* uploaded: how the upload call settled: "none", "accepted" or "rejected".
\* uploadResult: what the await of line 245 yielded.
\* unlink: "none", "pending" (issued), "ok" or "err" (its callback ran).
\* threw: the awaited call whose exception reached the catch block, if any.
\* calls: the calls the handler has made to its collaborators.
\* uploadArgs: the arguments of cloudinary.uploader.upload, lines 246-251.
NoUploadArgs ==
    [path |-> <<>>, folder |-> <<>>, public_id |-> <<>>,
     overwrite |-> FALSE, resource_type |-> ""]

\* html: htmlContent, the composed document, lines 85-213.
\* log: the steps the handler has taken, in the order it took them.
NoHtml ==
    [lang |-> <<>>, dir |-> <<>>, imageUrl |-> <<>>, logoPosition |-> "",
     logoUrl |-> <<>>, overlayDirection |-> <<>>, focusBackground |-> <<>>,
     linesPosition |-> "", lineColor |-> <<>>, line2Color |-> <<>>,
     texts |-> <<>>]

NewGen ==
    [pc |-> "idle", body |-> NoBody, res |-> NoResponse, browser |-> "none",
     html |-> NoHtml, log |-> <<>>,
     fileName |-> <<>>, filePath |-> <<>>, uploadArgs |-> NoUploadArgs,
     read |-> "none", uploaded |-> "none", uploadResult |-> NoResult,
     unlink |-> "none", threw |-> "none", calls |-> NoCalls]

\* The destroy call of DELETE /delete-image and what came of it.
NewDel ==
    [pc |-> "idle", fileName |-> Undefined, res |-> NoResponse, log |-> <<>>,
     destroyId |-> <<>>, destroyType |-> "", destroys |-> 0, result |-> "none"]

Bump(calls, k) == [calls EXCEPT ![k] = @ + 1]

\* The handler takes the step `step`.
Step(g, step) == [g EXCEPT !.log = Append(@, step)]

\* res.status(code).json(body), or res.json(body) with the default 200.
Respond(g, code, body) ==
    [Step(g, "respond") EXCEPT !.res = [status |-> code, body |-> body]]

\* A plausible slip: the catch block only logs.
CatchBlockLogsOnly(g) == [g EXCEPT !.pc = "done"]

\* The catch block of the handler, lines 270-273.
CatchBlock(g) ==
    [Respond(g, 500, [error |-> <<"Failed to process the image.">>])
        EXCEPT !.pc = "done"]

\* The awaited call `stage` throws inside the try block.
Throw(g, stage) == CatchBlock([g EXCEPT !.threw = stage])

\* `processed_image_${Date.now()}.jpg`
FileNameAt(t) == ProcessedImagePrefix \o NumberToString(t) \o DotJpg

\* path.join("/tmp", fileName)
PathJoin(dir, name) == dir \o <<"/">> \o name

\* The identifier the storage keeps an upload under: folder/public_id.
StoredId(args) == args.folder \o <<"/">> \o args.public_id

\* "processed_image_1700000000000.jpg", and the object stored under its name
\* before the first request.
Name1700 ==
    ProcessedImagePrefix \o
    <<"1", "7", "0", "0", "0", "0", "0", "0", "0", "0", "0", "0", "0">> \o DotJpg

StoredBefore == FolderPrefix \o Replace(Name1700, DotJpg, <<>>)

Init ==
    /\ now = StartTime
    /\ gen = [r \in GenIds |-> NewGen]
    /\ del = [d \in DelIds |-> NewDel]
    /\ fs = [p \in {} |-> "none"]
    /\ remote = [p \in {StoredBefore} |-> "old"]
    /\ uploads = 0

\* A millisecond passes.
Tick ==
    /\ now < StartTime + MaxTicks
    /\ now' = now + 1
    /\ UNCHANGED <<gen, del, fs, remote, uploads>>

(***************************************************************************)
(* Composition: the defaults of lines 80-82 and htmlContent, lines 85-213. *)
(* The document is the template's interpolated holes, each under the name  *)
(* of the place it fills, and the fixed declarations the claims speak of.  *)
(***************************************************************************)
\* a || b on an optional field of the validated value.
OrDefault(v, k, default) ==
    IF k \in DOMAIN v /\ ~Falsy(v[k]) THEN v[k].s ELSE default

\* Line 80: direction || "ltr".
textDirection(v) == OrDefault(v, "direction", Ltr)

\* Line 81: language || "en".
textLanguage(v) == OrDefault(v, "language", <<"e", "n">>)

BrandColor == <<"#", "F", "F", "4", "5", "0", "0">>

\* A plausible slip: the default taken whatever the request says.
focusColorAlwaysDefault(v) == BrandColor

\* Line 82: focusTextColor || "#FF4500".
focusColor(v) == OrDefault(v, "focusTextColor", BrandColor)

\* A plausible slip: the logo on the right whatever the direction.
LogoPositionNotMirrored(dir) == "right: 20px;"

\* Line 130: ${textDirection === "rtl" ? "left: 20px;" : "right: 20px;"}
LogoPosition(dir) == IF dir = Rtl THEN "left: 20px;" ELSE "right: 20px;"

\* A plausible slip: a cache-busting timestamp appended to the image URL.
BackgroundImageStamped(v) == v["imageUrl"].s \o <<"?">> \o NumberToString(now)

\* Line 108: background-image: url('${imageUrl}').
BackgroundImage(v) == v["imageUrl"].s

htmlContent(v) ==
    [lang             |-> textLanguage(v),                  \* line 87
     dir              |-> textDirection(v),                 \* line 87
     imageUrl         |-> BackgroundImage(v),               \* line 108
     logoPosition     |-> LogoPosition(textDirection(v)),   \* line 130
     logoUrl          |-> v["logoUrl"].s,                   \* line 133
     overlayDirection |-> textDirection(v),                 \* line 149
     focusBackground  |-> focusColor(v),                    \* line 160
     linesPosition    |-> "right: -45px;",                  \* line 174
     lineColor        |-> focusColor(v),                    \* line 182
     line2Color       |-> <<"#", "f", "f", "f", "f", "f", "f">>,   \* line 189
     texts            |-> <<v["text01"].s, v["focusText"].s, v["text02"].s>>]

\* Lines 61-228: the request arrives; validation, composition and the call
\* of puppeteer.launch.
GenReceive(r, b) ==
    /\ gen[r].pc = "idle"
    /\ LET g == Step([gen[r] EXCEPT !.body = b], "validate")
           error == validate(b)
       IN  gen' = [gen EXCEPT ![r] =
                IF error # NoError
                THEN [Respond(g, 400, [error |-> error]) EXCEPT !.pc = "done"]
                ELSE [Step(Step(g, "compose"), "launch")
                         EXCEPT !.html = htmlContent(b),
                                !.pc = "launch",
                                !.calls = Bump(@, "launch")]]
    /\ UNCHANGED <<now, del, fs, remote, uploads>>

\* Lines 215-229: puppeteer.launch settles; browser.newPage is called.
LaunchSettle(r, ok) ==
    /\ gen[r].pc = "launch"
    /\ gen' = [gen EXCEPT ![r] =
            IF ok THEN [Step(@, "newPage") EXCEPT !.browser = "open", !.pc = "newPage"]
            ELSE Throw(@, "launch")]
    /\ UNCHANGED <<now, del, fs, remote, uploads>>

\* Lines 229-230: browser.newPage settles; page.setContent is called.
NewPageSettle(r, ok) ==
    /\ gen[r].pc = "newPage"
    /\ gen' = [gen EXCEPT ![r] =
            IF ok THEN [Step(@, "setContent") EXCEPT !.pc = "setContent"]
            ELSE Throw(@, "newPage")]
    /\ UNCHANGED <<now, del, fs, remote, uploads>>

\* Lines 230-231: page.setContent settles; page.setViewport is called.
SetContentSettle(r, ok) ==
    /\ gen[r].pc = "setContent"
    /\ gen' = [gen EXCEPT ![r] =
            IF ok THEN [Step(@, "setViewport") EXCEPT !.pc = "setViewport"]
            ELSE Throw(@, "setContent")]
    /\ UNCHANGED <<now, del, fs, remote, uploads>>

\* Lines 231-241: page.setViewport settles; the file name is taken from the
\* clock and page.screenshot is called.
SetViewportSettle(r, ok) ==
    /\ gen[r].pc = "setViewport"
    /\ gen' = [gen EXCEPT ![r] =
            IF ok
            THEN [Step(@, "screenshot") EXCEPT
                           !.fileName = FileNameAt(now),
                           !.filePath = PathJoin(TmpDir, FileNameAt(now)),
                           !.calls = Bump(@, "screenshot"),
                           !.pc = "screenshot"]
            ELSE Throw(@, "setViewport")]
    /\ UNCHANGED <<now, del, fs, remote, uploads>>

WriteFile(files, path, content) == (path :> content) @@ files

RemoveFile(files, path) == [p \in DOMAIN files \ {path} |-> files[p]]

\* A plausible slip: the capture's exception swallowed, the handler goes on.
ScreenshotSettleSwallows(r, ok, wrote) ==
    /\ gen[r].pc = "screenshot"
    /\ ok => wrote
    /\ fs' = IF wrote THEN WriteFile(fs, gen[r].filePath, r) ELSE fs
    /\ gen' = [gen EXCEPT ![r] =
            [Step(@, "close") EXCEPT !.pc = "close", !.calls = Bump(@, "close"),
                                     !.threw = IF ok THEN @ ELSE "screenshot"]]
    /\ UNCHANGED <<now, del, remote, uploads>>

\* Lines 236-242: page.screenshot settles.  On success the render is in the
\* file and browser.close is called; a failed capture may leave a partial
\* file behind (wrote) and goes to the catch block.
ScreenshotSettle(r, ok, wrote) ==
    /\ gen[r].pc = "screenshot"
    /\ ok => wrote
    /\ fs' = IF wrote THEN WriteFile(fs, gen[r].filePath, r) ELSE fs
    /\ gen' = [gen EXCEPT ![r] =
            IF ok THEN [Step(@, "close") EXCEPT !.pc = "close", !.calls = Bump(@, "close")]
            ELSE Throw(@, "screenshot")]
    /\ UNCHANGED <<now, del, remote, uploads>>

\* A plausible slip: the name of the object taken from the clock again.
UploadArgsFreshStamp(g) ==
    [path |-> g.filePath,
     folder |-> <<"p", "r", "o", "c", "e", "s", "s", "e", "d", "_",
                  "i", "m", "a", "g", "e", "s">>,
     public_id |-> Replace(FileNameAt(now), DotJpg, <<>>),
     overwrite |-> TRUE,
     resource_type |-> "image"]

\* Lines 246-251: the arguments of cloudinary.uploader.upload.
UploadArgs(g) ==
    [path |-> g.filePath,
     folder |-> <<"p", "r", "o", "c", "e", "s", "s", "e", "d", "_",
                  "i", "m", "a", "g", "e", "s">>,
     public_id |-> Replace(g.fileName, DotJpg, <<>>),
     overwrite |-> TRUE,
     resource_type |-> "image"]

\* Lines 242-251: browser.close settles; cloudinary.uploader.upload is
\* called.  A close that throws may or may not have ended the browser.
CloseSettle(r, ok, ended) ==
    /\ gen[r].pc = "close"
    /\ ok => ended
    /\ gen' = [gen EXCEPT ![r] =
            LET g == [@ EXCEPT !.browser = IF ended THEN "closed" ELSE @]
            IN  IF ok THEN [Step(g, "upload") EXCEPT
                                     !.pc = "upload",
                                     !.uploadArgs = UploadArgs(g),
                                     !.calls = Bump(@, "upload")]
                ELSE Throw(g, "close")]
    /\ UNCHANGED <<now, del, fs, remote, uploads>>

\* The upload reads the local file it was given.
UploadRead(r) ==
    /\ gen[r].pc = "upload"
    /\ gen[r].read = "none"
    /\ gen' = [gen EXCEPT ![r].read =
            IF gen[r].uploadArgs.path \in DOMAIN fs
            THEN fs[gen[r].uploadArgs.path] ELSE "absent"]
    /\ UNCHANGED <<now, del, fs, remote, uploads>>

\* What the storage answers for an accepted upload: the identifier it
\* stored the object under and a versioned URL of it.
SecureUrl(id, version) ==
    <<"h", "t", "t", "p", "s", ":", "/", "/", "r", "e", "s", "/", "v">>
    \o NumberToString(version) \o <<"/">> \o id \o DotJpg

UploadAccepted(args, version) ==
    [rejected |-> FALSE,
     value |-> [t |-> "object",
                secure_url |-> SecureUrl(StoredId(args), version),
                public_id |-> StoredId(args)]]

UploadRejected == [rejected |-> TRUE, value |-> NoResult]

\* A plausible slip: no .catch on the upload, the rejection propagates.
UploadRethrow(outcome) == outcome

\* Lines 252-255: .catch((error) => { console.error(...); return null; }).
UploadCatch(outcome) ==
    IF outcome.rejected THEN [rejected |-> FALSE, value |-> Null] ELSE outcome

\* Lines 257-260: fs.unlink(filePath, callback) is issued.
IssueUnlink(g) ==
    [Step(g, "unlink") EXCEPT !.unlink = "pending", !.calls = Bump(@, "unlink")]

\* A plausible slip: the success response without the fileName.
UploadVerdictUrlOnly(g) ==
    IF g.uploadResult.t = "null"
    THEN Respond(g, 500, [error |-> <<"Failed to upload the image.">>])
    ELSE Respond(g, 200, [imageUrl |-> g.uploadResult.secure_url])

\* A plausible slip: the `return` of line 263 missing; the handler goes on
\* to read a field of null, and the catch block responds again.
UploadVerdictFallsThrough(g) ==
    IF g.uploadResult.t = "null"
    THEN Respond(Respond(g, 500, [error |-> <<"Failed to upload the image.">>]),
                 500, [error |-> <<"Failed to process the image.">>])
    ELSE Respond(g, 200, [imageUrl |-> g.uploadResult.secure_url,
                          fileName |-> g.uploadResult.public_id])

\* Lines 262-269: the response after the upload.
UploadVerdict(g) ==
    IF g.uploadResult.t = "null"
    THEN Respond(g, 500, [error |-> <<"Failed to upload the image.">>])
    ELSE Respond(g, 200, [imageUrl |-> g.uploadResult.secure_url,
                          fileName |-> g.uploadResult.public_id])

\* A plausible slip: the response sent first, the cleanup after it.
AfterUploadRespondsFirst(g) == IssueUnlink(UploadVerdict(g))

\* Lines 257-269: what the handler does once the upload has settled.
AfterUpload(g) == UploadVerdict(IssueUnlink(g))

\* Lines 245-274: the upload settles; the rest of the handler runs: the
\* unlink is issued and the response is sent.
UploadSettle(r, ok) ==
    /\ gen[r].pc = "upload"
    /\ ok => gen[r].read \notin {"none", "absent"}
    /\ LET args    == gen[r].uploadArgs
           raw     == IF ok THEN UploadAccepted(args, uploads + 1) ELSE UploadRejected
           awaited == UploadCatch(raw)
           g       == [gen[r] EXCEPT !.uploaded = IF ok THEN "accepted" ELSE "rejected"]
       IN  /\ gen' = [gen EXCEPT ![r] =
                  IF awaited.rejected THEN Throw(g, "upload")
                  ELSE [AfterUpload([g EXCEPT !.uploadResult = awaited.value])
                           EXCEPT !.pc = "done"]]
           /\ remote' = IF ok THEN (StoredId(args) :> gen[r].read) @@ remote ELSE remote
           /\ uploads' = IF ok THEN uploads + 1 ELSE uploads
    /\ UNCHANGED <<now, del, fs>>

\* A plausible slip: a cleanup error escalated into the response.
UnlinkCallbackEscalates(g, err) ==
    IF err
    THEN [Respond(g, 500, [error |-> <<"Failed to process the image.">>])
             EXCEPT !.unlink = "err"]
    ELSE [g EXCEPT !.unlink = "ok"]

\* Lines 258-260: the callback of fs.unlink: an error is logged, no more.
UnlinkCallback(g, err) == [g EXCEPT !.unlink = IF err THEN "err" ELSE "ok"]

\* The unlink completes: the file is removed, or the unlink fails (the file
\* is gone already, or the removal is refused) and leaves the directory as
\* it was.
UnlinkComplete(r, fails) ==
    /\ gen[r].unlink = "pending"
    /\ LET err == fails \/ gen[r].filePath \notin DOMAIN fs
       IN  /\ fs' = IF err THEN fs ELSE RemoveFile(fs, gen[r].filePath)
           /\ gen' = [gen EXCEPT ![r] = UnlinkCallback(@, err)]
    /\ UNCHANGED <<now, del, remote, uploads>>

(***************************************************************************)
(* DELETE /delete-image.                                                   *)
(***************************************************************************)
DeleteInputs ==
    {Undefined,
     Str(<<>>),
     Str(<<".", ".", "/", "e", "t", "c", "/", "p", "a", "s", "s", "w", "d">>),
     Str(ProcessedImagePrefix \o <<"a", "b", "c">> \o DotJpg),
     Str(<<"i", "m", "a", "g", "e", "_", "1", "2", "3">> \o DotJpg),
     Str(ProcessedImagePrefix \o DotJpg),
     Str(<<"x">> \o FileNameAt(StartTime)),
     Str(FileNameAt(StartTime) \o <<"x">>),
     Str(ProcessedImagePrefix \o <<"1", "x", "j", "p", "g">>),
     Num(<<"5">>),
     Arr(FileNameAt(StartTime)),
     Str(Name1700),
     Str(FileNameAt(StartTime))}

\* A plausible slip: the extension left in the identifier.
PublicIdOfKeepsExtension(fileName) == FolderPrefix \o fileName

\* Line 290: `processed_images/${fileName.replace(".jpg", "")}`
PublicIdOf(fileName) == FolderPrefix \o Replace(fileName, DotJpg, <<>>)

\* The catch block of the handler, lines 303-306.
DeleteCatch(x) ==
    [Respond(x, 500, [error |-> <<"Failed to delete the image.">>]) EXCEPT !.pc = "done"]

\* Lines 277-295: the request arrives; the name is validated, the public id
\* is derived and cloudinary.uploader.destroy is called.  Only a string has
\* a replace method; on any other value that passed, line 290 throws.
DeleteReceive(d, v) ==
    /\ del[d].pc = "idle"
    /\ LET x == Step([del[d] EXCEPT !.fileName = v], "validate")
       IN  del' = [del EXCEPT ![d] =
               IF Falsy(v)
               THEN [Respond(x, 400, [error |-> <<"fileName is required.">>])
                        EXCEPT !.pc = "done"]
               ELSE IF ~isValidFilename(v)
               THEN [Respond(x, 400, [error |-> <<"Invalid file name.">>])
                        EXCEPT !.pc = "done"]
               ELSE IF v.t # "string" THEN DeleteCatch(x)
               ELSE [Step(x, "destroy") EXCEPT
                              !.pc = "destroy",
                              !.destroyId = PublicIdOf(v.s),
                              !.destroyType = "image",
                              !.destroys = @ + 1]]
    /\ UNCHANGED <<now, gen, fs, remote, uploads>>

\* Lines 266-269 and 277-286: a client that received a 200 from
\* /generate-post sends the fileName of that response, unchanged, as the
\* fileName of a /delete-image request.
DeleteReturned(d, r) ==
    /\ gen[r].res.status = 200
    /\ DeleteReceive(d, Str(gen[r].res.body.fileName))

\* A plausible slip: only "ok" counted as success.
DestroyVerdictOkOnly(x) ==
    IF x.result # "ok" THEN DeleteCatch(x)
    ELSE [Respond(x, 200, [message |-> <<"File deleted successfully.">>])
             EXCEPT !.pc = "done"]

\* Lines 297-302: the response after the destroy call returned.
DestroyVerdict(x) ==
    IF x.result # "ok" /\ x.result # "not found"
    THEN [Respond(x, 500, [error |-> <<"Failed to delete the image.">>])
             EXCEPT !.pc = "done"]
    ELSE [Respond(x, 200, [message |-> <<"File deleted successfully.">>])
             EXCEPT !.pc = "done"]

\* What the storage may do with a destroy call: remove the object and say
\* "ok", find none and say "not found", answer another result, or throw.
DestroyOutcomes == {"served", "error", "throw"}

\* Lines 293-306: the destroy call settles and the response is sent.
DestroySettle(d, outcome) ==
    /\ del[d].pc = "destroy"
    /\ LET id     == del[d].destroyId
           result == IF outcome = "served"
                     THEN IF id \in DOMAIN remote THEN "ok" ELSE "not found"
                     ELSE outcome
       IN  /\ del' = [del EXCEPT ![d] =
                  IF outcome = "throw" THEN DeleteCatch([@ EXCEPT !.result = "throw"])
                  ELSE DestroyVerdict([@ EXCEPT !.result = result])]
           /\ remote' = IF outcome = "served" THEN RemoveFile(remote, id) ELSE remote
    /\ UNCHANGED <<now, gen, fs, uploads>>

(***************************************************************************)
(* The specification.                                                      *)
(***************************************************************************)
Next ==
    \/ Tick
    \/ \E r \in GenIds : \E b \in Bodies : GenReceive(r, b)
    \/ \E r \in GenIds : \E ok \in BOOLEAN : LaunchSettle(r, ok)
    \/ \E r \in GenIds : \E ok \in BOOLEAN : NewPageSettle(r, ok)
    \/ \E r \in GenIds : \E ok \in BOOLEAN : SetContentSettle(r, ok)
    \/ \E r \in GenIds : \E ok \in BOOLEAN : SetViewportSettle(r, ok)
    \/ \E r \in GenIds : \E ok, wrote \in BOOLEAN : ScreenshotSettle(r, ok, wrote)
    \/ \E r \in GenIds : \E ok, ended \in BOOLEAN : CloseSettle(r, ok, ended)
    \/ \E r \in GenIds : UploadRead(r)
    \/ \E r \in GenIds : \E ok \in BOOLEAN : UploadSettle(r, ok)
    \/ \E r \in GenIds : \E fails \in BOOLEAN : UnlinkComplete(r, fails)
    \/ \E d \in DelIds : \E v \in DeleteInputs : DeleteReceive(d, v)
    \/ \E d \in DelIds : \E r \in GenIds : DeleteReturned(d, r)
    \/ \E d \in DelIds : \E outcome \in DestroyOutcomes : DestroySettle(d, outcome)

Spec == Init /\ [][Next]_vars

(***************************************************************************)
(* The claims.                                                             *)
(***************************************************************************)
UploadFailure == [error |-> <<"Failed to upload the image.">>]

Answered(r) == gen[r].res.status # 0

\* C1: every request whose browser was launched has closed it by the time
\* its response is sent, whichever call succeeded or threw.
C1_SessionClosedOnEveryExit ==
    \A r \in GenIds :
        /\ Answered(r)
        /\ gen[r].browser # "none"
        /\ gen[r].threw \in {"none", "setContent", "setViewport", "screenshot", "upload"}
        => gen[r].browser = "closed"

\* C2: a request that has returned and had created an artifact path has
\* issued exactly one unlink of it, also when the capture threw.
C2_CleanupOncePerArtifactPath ==
    \A r \in GenIds :
        gen[r].pc = "done" /\ gen[r].filePath # <<>> => gen[r].calls.unlink = 1

\* C3: the file a request's upload reads exists and holds the render of
\* that same request, also when two requests take their file name in the
\* same millisecond.
C3_ArtifactOwnedExclusively ==
    \A r \in GenIds : gen[r].read # "none" => gen[r].read = r

\* C4: a body that violates the schema (imageUrl or logoUrl missing or no
\* URI, text01, focusText or text02 missing or empty, direction outside
\* {ltr, rtl}, focusTextColor no 3- or 6-digit hex colour) is answered 400
\* with an error message and nothing downstream runs: no browser, no file,
\* no upload, no unlink.
C4_InvalidBodyStopsAt400 ==
    \A r \in GenIds :
        LET b == gen[r].body
            IsString(k) == k \in DOMAIN b /\ b[k].t = "string"
            BadUri(k)   == ~(IsString(k) /\ IsUri(b[k].s))
            BadText(k)  == ~(IsString(k) /\ b[k].s # <<>>)
            BadDirection ==
                "direction" \in DOMAIN b /\ b["direction"] \notin {Str(Ltr), Str(Rtl)}
            BadColor ==
                /\ "focusTextColor" \in DOMAIN b
                /\ LET c == b["focusTextColor"]
                   IN  ~(/\ c.t = "string"
                         /\ Len(c.s) - 1 \in {3, 6}
                         /\ c.s[1] = "#"
                         /\ \A i \in 2..Len(c.s) : c.s[i] \in HexChars)
            Violates ==
                \/ BadUri("imageUrl") \/ BadUri("logoUrl")
                \/ BadText("text01") \/ BadText("focusText") \/ BadText("text02")
                \/ BadDirection \/ BadColor
        IN  gen[r].pc # "idle" /\ Violates =>
                /\ gen[r].pc = "done"
                /\ gen[r].res.status = 400
                /\ DOMAIN gen[r].res.body = {"error"}
                /\ gen[r].res.body.error # <<>>
                /\ gen[r].calls = NoCalls
                /\ gen[r].browser = "none"
                /\ gen[r].filePath = <<>>
                /\ gen[r].unlink = "none"
                /\ \A p \in DOMAIN fs : fs[p] # r

C4_Witness ==
    \E r \in GenIds :
        /\ "focusTextColor" \in DOMAIN gen[r].body
        /\ gen[r].body["focusTextColor"] = Str(<<"#", "1", "2">>)
        /\ gen[r].res.status = 400

\* C5: when launch, newPage, setContent, setViewport or screenshot throws,
\* the request ends with a 500 and has made no upload call; an upload call
\* is made only after all of them succeeded.
C5_NoUploadUnlessRendered ==
    \A r \in GenIds :
        /\ gen[r].threw \in {"launch", "newPage", "setContent", "setViewport", "screenshot"}
              => /\ gen[r].pc = "done"
                 /\ gen[r].res.status = 500
                 /\ gen[r].calls.upload = 0
        /\ gen[r].calls.upload > 0
              => /\ gen[r].calls.screenshot = 1
                 /\ gen[r].threw \in {"none", "upload"}

C5_Witness ==
    \E r \in GenIds :
        /\ gen[r].threw = "screenshot"
        /\ gen[r].res.status = 500
        /\ gen[r].calls.upload = 0

\* C6: a rejected upload becomes a null result and does not reach the catch
\* block: the unlink is still issued and the answer is 500 with the
\* upload-failure error, never 200.
C6_UploadRejectionBecomesNull ==
    \A r \in GenIds :
        gen[r].uploaded = "rejected" =>
            /\ gen[r].uploadResult = Null
            /\ gen[r].threw = "none"
            /\ gen[r].calls.unlink = 1
            /\ gen[r].unlink # "none"
            /\ gen[r].res = [status |-> 500, body |-> UploadFailure]

C6_Witness ==
    \E r \in GenIds :
        /\ gen[r].uploaded = "rejected"
        /\ gen[r].res.status = 500
        /\ gen[r].unlink = "pending"

\* C7: every response is either a 200 with both imageUrl and fileName, both
\* from the upload result of the same request, sent only after rendering
\* and upload succeeded, or an error response with neither of them.
C7_NoPartialSuccess ==
    \A r \in GenIds :
        Answered(r) =>
            \/ /\ gen[r].res.status = 200
               /\ DOMAIN gen[r].res.body = {"imageUrl", "fileName"}
               /\ gen[r].uploadResult.t = "object"
               /\ gen[r].res.body.imageUrl = gen[r].uploadResult.secure_url
               /\ gen[r].res.body.fileName = gen[r].uploadResult.public_id
               /\ gen[r].res.body.imageUrl # <<>>
               /\ gen[r].res.body.fileName # <<>>
               /\ gen[r].uploaded = "accepted"
               /\ gen[r].threw = "none"
               /\ gen[r].browser = "closed"
               /\ \A q \in GenIds \ {r} :
                      gen[q].res.status = 200 =>
                          gen[q].res.body.imageUrl # gen[r].res.body.imageUrl
            \/ /\ gen[r].res.status \in {400, 500}
               /\ DOMAIN gen[r].res.body = {"error"}

C7_Witness ==
    \A r \in GenIds :
        /\ gen[r].res.status = 200
        /\ gen[r].fileName = FileNameAt(StartTime)

C9_DestroyVerdict ==
    \A d \in DelIds :
        del[d].pc = "done" /\ del[d].destroys = 1 =>
            /\ del[d].res.status = 200 <=> del[d].result \in {"ok", "not found"}
            /\ del[d].result \notin {"ok", "not found"} => del[d].res.status = 500

C9_Witness ==
    \E d \in DelIds :
        /\ del[d].result = "not found"
        /\ del[d].res.status = 200

\* C10: whether the unlink succeeds or fails, the response is the one the
\* upload decided: 200 with the upload result after an accepted upload,
\* 500 upload failure after a rejected one.
C10_CleanupNeverChangesVerdict ==
    \A r \in GenIds :
        gen[r].unlink \in {"ok", "err"} =>
            /\ gen[r].uploaded = "accepted" =>
                   gen[r].res = [status |-> 200,
                                 body |-> [imageUrl |-> gen[r].uploadResult.secure_url,
                                           fileName |-> gen[r].uploadResult.public_id]]
            /\ gen[r].uploaded = "rejected" =>
                   gen[r].res = [status |-> 500, body |-> UploadFailure]

C10_Witness ==
    \E r, q \in GenIds :
        /\ gen[r].unlink = "err"
        /\ gen[r].res.status = 200
        /\ gen[q].unlink = "err"
        /\ gen[q].res.status = 500

\* The stages of the generation pipeline, in their order.
StageOrder ==
    <<"validate", "compose", "launch", "newPage", "setContent", "setViewport",
      "screenshot", "close", "upload", "unlink", "respond">>

Rank(step) == CHOOSE i \in 1..Len(StageOrder) : StageOrder[i] = step

Position(log, step) == CHOOSE i \in 1..Len(log) : log[i] = step

Taken(log, step) == \E i \in 1..Len(log) : log[i] = step

\* C11: the steps of every run occur in the pipeline's order, each at most
\* once; the unlink is issued only after the upload call has settled, and
\* the success or upload-failure response is sent only after the unlink
\* has been issued.
C11_PipelineLinear ==
    \A r \in GenIds :
        LET log == gen[r].log
        IN  /\ \A i \in 1..(Len(log) - 1) : Rank(log[i]) < Rank(log[i + 1])
            /\ Taken(log, "unlink") =>
                   /\ Taken(log, "upload")
                   /\ gen[r].uploaded # "none"
            /\ /\ Answered(r)
               /\ \/ gen[r].res.status = 200
                  \/ gen[r].res.body.error = <<"Failed to upload the image.">>
               => /\ Taken(log, "unlink")
                  /\ Position(log, "unlink") < Position(log, "respond")

C11_Witness ==
    \E r \in GenIds :
        /\ gen[r].log = StageOrder
        /\ gen[r].res.status = 200

(***************************************************************************)
(* Composition alone: requests arrive with every combination of the        *)
(* optional fields, and each is validated and composed.                    *)
(***************************************************************************)
WithOptional(b, k, v) == IF v = Undefined THEN b ELSE With(b, k, v)

ComposeBodies ==
    {WithOptional(WithOptional(WithOptional(MinimalBody, "direction", d),
                               "language", l),
                  "focusTextColor", c) :
        d \in {Undefined, Str(Ltr), Str(Rtl)},
        l \in {Undefined, Str(<<"a", "r">>)},
        c \in {Undefined, Str(<<"#", "0", "a", "F">>),
               Str(<<"#", "1", "2", "a", "B", "9", "f">>)}}
    \cup InvalidBodies

ComposeNext ==
    \/ Tick
    \/ \E r \in GenIds : \E b \in ComposeBodies : GenReceive(r, b)

ComposeSpec == Init /\ [][ComposeNext]_vars

Composed(r) == gen[r].html # NoHtml

Has(r, k) == k \in DOMAIN gen[r].body

\* C12: in the composed document the logo is on the left (left: 20px) when
\* direction is "rtl" and on the right (right: 20px) when it is "ltr" or
\* omitted, for every valid request; the bottom-right lines stay at the
\* right whatever the direction.
C12_LogoMirrorsDirection ==
    \A r \in GenIds :
        /\ gen[r].pc # "idle" /\ gen[r].res.status # 400 => Composed(r)
        /\ Composed(r) =>
               /\ Has(r, "direction") /\ gen[r].body["direction"] = Str(Rtl)
                      => gen[r].html.logoPosition = "left: 20px;"
               /\ Has(r, "direction") /\ gen[r].body["direction"] = Str(Ltr)
                      => gen[r].html.logoPosition = "right: 20px;"
               /\ ~Has(r, "direction")
                      => gen[r].html.logoPosition = "right: 20px;"
               /\ gen[r].html.linesPosition = "right: -45px;"

C12_Witness ==
    \E r, q \in GenIds :
        /\ Has(r, "direction") /\ gen[r].body["direction"] = Str(Rtl)
        /\ gen[r].html.logoPosition = "left: 20px;"
        /\ ~Has(q, "direction")
        /\ gen[q].html.logoPosition = "right: 20px;"

\* C13: the defaults are applied only once validation has succeeded: an
\* omitted direction becomes "ltr", an omitted language "en", an omitted
\* focusTextColor #FF4500; an optional field that is present and valid is
\* used unchanged; a malformed focusTextColor is rejected, not defaulted.
C13_DefaultsAfterValidation ==
    \A r \in GenIds :
        LET Used(k, default) == IF Has(r, k) THEN gen[r].body[k].s ELSE default
            direction == Used("direction", <<"l", "t", "r">>)
            language  == Used("language", <<"e", "n">>)
            color     == Used("focusTextColor", <<"#", "F", "F", "4", "5", "0", "0">>)
            h         == gen[r].html
        IN  /\ gen[r].pc # "idle" /\ gen[r].res.status # 400 =>
                   /\ Composed(r)
                   /\ h.dir = direction /\ h.overlayDirection = direction
                   /\ h.lang = language
                   /\ h.focusBackground = color /\ h.lineColor = color
            /\ gen[r].res.status = 400 => ~Composed(r) /\ gen[r].calls = NoCalls
            /\ /\ Has(r, "focusTextColor")
               /\ gen[r].body["focusTextColor"] \in
                      {Str(<<"r", "e", "d">>), Str(<<"#", "1", "2">>)}
               => gen[r].res.status = 400

C13_Witness ==
    \E r, q \in GenIds :
        /\ gen[r].body = MinimalBody
        /\ gen[r].html.focusBackground = <<"#", "F", "F", "4", "5", "0", "0">>
        /\ gen[r].html.lang = <<"e", "n">>
        /\ Has(q, "focusTextColor") /\ Has(q, "language") /\ Has(q, "direction")
        /\ gen[q].html.focusBackground = <<"#", "1", "2", "a", "B", "9", "f">>

\* C14: two requests with identical validated fields have identical
\* composed documents, whatever ran before or runs beside them and whatever
\* timestamps their file names carry.
C14_CompositionDeterministic ==
    \A r, q \in GenIds :
        Composed(r) /\ Composed(q) /\ gen[r].body = gen[q].body
            => gen[r].html = gen[q].html

C14_Witness ==
    \E r, q \in GenIds :
        /\ r # q
        /\ Composed(r) /\ Composed(q)
        /\ gen[r].body = gen[q].body
        /\ gen[r].fileName # <<>> /\ gen[q].fileName # <<>>
        /\ gen[r].fileName # gen[q].fileName
        /\ gen[r].res.status = 200
        /\ gen[r].html = gen[q].html

\* C15: a request makes at most one upload call, and exactly one when it
\* answers 200; the call names the object by the local file name without
\* ".jpg" (the timestamp of the local artifact), in folder
\* processed_images, with overwrite and resource type image; a rejected
\* upload is not tried again.
C15_OneUploadNamedAfterArtifact ==
    \A r \in GenIds :
        /\ gen[r].calls.upload <= 1
        /\ gen[r].res.status = 200 => gen[r].calls.upload = 1
        /\ gen[r].uploaded = "rejected" => gen[r].calls.upload = 1 /\ gen[r].pc = "done"
        /\ gen[r].calls.upload = 1 =>
               LET a == gen[r].uploadArgs
               IN  /\ a.public_id \o <<".", "j", "p", "g">> = gen[r].fileName
                   /\ a.path = <<"/", "t", "m", "p", "/">> \o gen[r].fileName
                   /\ a.folder = <<"p", "r", "o", "c", "e", "s", "s", "e", "d", "_",
                                   "i", "m", "a", "g", "e", "s">>
                   /\ a.overwrite
                   /\ a.resource_type = "image"

C15_Witness ==
    \E r \in GenIds :
        /\ gen[r].res.status = 200
        /\ gen[r].calls.upload = 1
        /\ gen[r].fileName = FileNameAt(StartTime)
        /\ now > StartTime

(***************************************************************************)
(* Deletion alone: several DELETE /delete-image requests, in any order and *)
(* overlap, against a storage that holds two objects of earlier            *)
(* generations and serves every destroy call ("ok" when it removes the     *)
(* object, "not found" when there is none).                                *)
(***************************************************************************)
SeqDelIds == {"d1", "d2", "d3"}

StoredOther == PublicIdOf(FileNameAt(StartTime))

SeqInputs ==
    {Str(Name1700), Str(FileNameAt(StartTime)), Str(FileNameAt(StartTime + 1))}

DeleteInit ==
    /\ now = StartTime
    /\ gen = [r \in GenIds |-> NewGen]
    /\ del = [d \in SeqDelIds |-> NewDel]
    /\ fs = [p \in {} |-> "none"]
    /\ remote = [p \in {StoredBefore, StoredOther} |-> "old"]
    /\ uploads = 0

DeleteNext ==
    \/ \E d \in SeqDelIds : \E v \in SeqInputs : DeleteReceive(d, v)
    \/ \E d \in SeqDelIds : DestroySettle(d, "served")

DeleteSpec == DeleteInit /\ [][DeleteNext]_vars

\* C16: with a storage that answers "ok" when it removes an object and
\* "not found" when there is none, every DELETE of a valid fileName is
\* answered 200, however often the name is deleted; the object is absent
\* once the first of them is served, only that one removes anything, and
\* no object is removed that no request named.
C16_DeleteIdempotent ==
    /\ \A d \in SeqDelIds :
           del[d].pc = "done" =>
               /\ del[d].res.status = 200
               /\ del[d].result \in {"ok", "not found"}
               /\ del[d].destroyId \notin DOMAIN remote
    /\ \A d, e \in SeqDelIds :
           /\ d # e
           /\ del[d].pc = "done" /\ del[e].pc = "done"
           /\ del[d].destroyId = del[e].destroyId
           => ~(del[d].result = "ok" /\ del[e].result = "ok")
    /\ \A id \in {StoredBefore, StoredOther} :
           id \notin DOMAIN remote =>
               \E d \in SeqDelIds :
                   /\ del[d].fileName.s = Replace(id, FolderPrefix, <<>>) \o DotJpg
                   /\ del[d].result = "ok"

C16_Witness ==
    /\ \A d \in SeqDelIds :
           /\ del[d].fileName = Str(Name1700)
           /\ del[d].res.status = 200
    /\ \E d \in SeqDelIds : del[d].result = "ok"
    /\ \E d \in SeqDelIds : del[d].result = "not found"
    /\ StoredOther \in DOMAIN remote
    /\ StoredBefore \notin DOMAIN remote

\* C17: for every valid fileName processed_image_<digits>.jpg the handler
\* makes exactly one destroy call, on processed_images/processed_image_<digits>
\* (the fileName without .jpg, under the fixed folder), with resource type
\* image.
C17_DestroyIdentifier ==
    \A d \in DelIds :
        LET v  == del[d].fileName
            n  == Len(v.s) - Len(ProcessedImagePrefix) - Len(DotJpg)
            ds == SubSeq(v.s, Len(ProcessedImagePrefix) + 1, Len(ProcessedImagePrefix) + n)
            Valid ==
                /\ v.t = "string"
                /\ n >= 1
                /\ \A i \in 1..n : ds[i] \in Digits
                /\ v.s = ProcessedImagePrefix \o ds \o DotJpg
        IN  /\ del[d].destroys <= 1
            /\ del[d].pc # "idle" /\ Valid =>
                   /\ del[d].destroys = 1
                   /\ del[d].destroyId =
                          <<"p", "r", "o", "c", "e", "s", "s", "e", "d", "_",
                            "i", "m", "a", "g", "e", "s", "/">>
                          \o ProcessedImagePrefix \o ds
                   /\ del[d].destroyType = "image"

C17_Witness ==
    \E d \in DelIds :
        /\ del[d].fileName = Str(Name1700)
        /\ del[d].destroys = 1
        /\ del[d].destroyType = "image"
        /\ del[d].pc = "done"

\* C18: generation followed by deletion round-trips: the fileName of a 200
\* response of /generate-post, sent unchanged to /delete-image, passes the
\* deletion-name validation and causes one destroy call on the identifier
\* the generated object was stored under.
C18_RoundTrip ==
    \A d \in DelIds : \A r \in GenIds :
        (/\ gen[r].res.status = 200
         /\ del[d].pc # "idle"
         /\ del[d].fileName = Str(gen[r].res.body.fileName)) =>
            /\ del[d].res.status # 400
            /\ del[d].destroys = 1
            /\ del[d].destroyId = StoredId(gen[r].uploadArgs)

Responses(log) == Cardinality({i \in 1..Len(log) : log[i] = "respond"})

AnsweredOnce(x) ==
    /\ Responses(x.log) <= 1
    /\ x.res.status # 0 <=> Responses(x.log) = 1
    /\ Responses(x.log) = 1 =>
           /\ x.log[Len(x.log)] = "respond"
           /\ x.pc = "done"

\* C19: every request to either endpoint is answered at most once: a handler
\* sends no second response, and the response is the last step of the
\* handler; only the completion of an unlink already issued comes after it.
C19_AnsweredAtMostOnce ==
    /\ \A r \in GenIds :
           /\ AnsweredOnce(gen[r])
           /\ gen[r].unlink # "none" => gen[r].calls.unlink = 1
    /\ \A d \in DelIds : AnsweredOnce(del[d])

C19_Witness ==
    /\ \E r \in GenIds :
           /\ gen[r].res.status = 500
           /\ gen[r].res.body = UploadFailure
           /\ gen[r].unlink = "ok"
           /\ Responses(gen[r].log) = 1
    /\ \E d \in DelIds :
           /\ del[d].res.status = 500
           /\ del[d].result = "throw"
           /\ Responses(del[d].log) = 1


(***************************************************************************)
(* Progress.  Each awaited external call of a request that is served       *)
(* eventually settles: it returns or it throws.  Nothing is assumed of the *)
(* other request: its calls may stay pending for ever.                     *)
(***************************************************************************)
Served == "g1"

Stalled == "g2"

LiveBodies == {MinimalBody, Without(MinimalBody, "imageUrl")}

LiveInputs == {Undefined, Arr(FileNameAt(StartTime)), Str(Name1700)}

LiveNext ==
    \/ Tick
    \/ \E r \in GenIds : \E b \in LiveBodies : GenReceive(r, b)
    \/ \E r \in GenIds : \E ok \in BOOLEAN : LaunchSettle(r, ok)
    \/ \E r \in GenIds : \E ok \in BOOLEAN : NewPageSettle(r, ok)
    \/ \E r \in GenIds : \E ok \in BOOLEAN : SetContentSettle(r, ok)
    \/ \E r \in GenIds : \E ok \in BOOLEAN : SetViewportSettle(r, ok)
    \/ \E r \in GenIds : \E ok, wrote \in BOOLEAN : ScreenshotSettle(r, ok, wrote)
    \/ \E r \in GenIds : \E ok, ended \in BOOLEAN : CloseSettle(r, ok, ended)
    \/ \E r \in GenIds : UploadRead(r)
    \/ \E r \in GenIds : \E ok \in BOOLEAN : UploadSettle(r, ok)
    \/ \E r \in GenIds : \E fails \in BOOLEAN : UnlinkComplete(r, fails)
    \/ \E d \in DelIds : \E v \in LiveInputs : DeleteReceive(d, v)
    \/ \E d \in DelIds : \E r \in GenIds : DeleteReturned(d, r)
    \/ \E d \in DelIds : \E outcome \in DestroyOutcomes : DestroySettle(d, outcome)

CallsSettle ==
    /\ WF_vars(\E ok \in BOOLEAN : LaunchSettle(Served, ok))
    /\ WF_vars(\E ok \in BOOLEAN : NewPageSettle(Served, ok))
    /\ WF_vars(\E ok \in BOOLEAN : SetContentSettle(Served, ok))
    /\ WF_vars(\E ok \in BOOLEAN : SetViewportSettle(Served, ok))
    /\ WF_vars(\E ok, wrote \in BOOLEAN : ScreenshotSettle(Served, ok, wrote))
    /\ WF_vars(\E ok, ended \in BOOLEAN : CloseSettle(Served, ok, ended))
    /\ WF_vars(\E ok \in BOOLEAN : UploadSettle(Served, ok))
    /\ \A d \in DelIds :
           WF_vars(\E outcome \in DestroyOutcomes : DestroySettle(d, outcome))

LiveSpec == Init /\ [][LiveNext]_vars /\ CallsSettle

\* C20: provided every external call of a request eventually returns or
\* throws, the request is eventually answered, whatever the other requests
\* do: a /generate-post request is answered also when the calls of the other
\* one never settle, and so is a /delete-image request.
C20_EveryRequestAnswered ==
    /\ (gen[Served].pc # "idle") ~> (gen[Served].res.status # 0)
    /\ \A d \in DelIds : (del[d].pc # "idle") ~> (del[d].res.status # 0)

C20_Witness ==
    /\ gen[Served].res.status = 200
    /\ gen[Served].calls.upload = 1
    /\ gen[Stalled].pc = "launch"
    /\ \E d \in DelIds : del[d].res.status = 200 /\ del[d].destroys = 1

============================================================================
